---- MODULE Spec2Model ----
(***************************************************************************)
(* Lost-Photos-Found: the extraction and deduplication engine of           *)
(* lostphotosfound/server.py (class Server).                               *)
(*                                                                         *)
(* One process runs Server.lostphotosfound over a fixed mailbox; a run     *)
(* ends by normal completion ("done"), by an uncaught exception            *)
(* ("aborted") or by the process being killed ("crashed").  A later run    *)
(* opens the two shelves again and finds the files the earlier runs left.  *)
(*                                                                         *)
(* Spec is that program over small mailboxes; SpecDisposition is the same  *)
(* program over one message whose parts carry every Content-Disposition;   *)
(* SpecServer is Server.__init__ and _login over every combination of      *)
(* missing arguments; SpecNames and SpecSanitize are the naming steps of   *)
(* _save_part (fallbacks, counter, sanitizing) over headers and names.     *)
(***************************************************************************)
EXTENDS Integers, Sequences, FiniteSets, TLC

\* ------------------------------------------------------------------ bounds
MaxMsgs == 2      \* messages returned by the search
MaxParts == 2     \* parts below the root of a multipart message
MaxRuns == 2      \* runs of the program over the same mailbox

\* ------------------------------------------------------------ input domains
Names == {"a.jpg", "b.jpg"}          \* resolved, sanitized header filenames
Payloads == {<<1>>, <<2>>}           \* decoded payload bytes of image parts
Dates == {"2012-10-28"}              \* parsed Date header of a message
Senders == {"x@example.com"}         \* bare sender address of a message

NoName == "-"
NoPayload == <<>>
NoDisposition == "None"              \* part.get('Content-Disposition') is None
Dispositions == {NoDisposition, "inline", "attachment"}

\* A leaf of mail.walk(): a non-image part, or an image part with its
\* filename and payload.
Parts ==
  {[kind |-> "text", name |-> NoName, payload |-> NoPayload,
    disposition |-> NoDisposition]}
  \cup [kind : {"image"}, name : Names, payload : Payloads,
        disposition : {"attachment"}]

\* The root of a multipart message, which mail.walk() yields first.
RootPart == [kind |-> "multipart", name |-> NoName, payload |-> NoPayload,
             disposition |-> NoDisposition]

RECURSIVE SeqsUpTo(_, _)
SeqsUpTo(S, n) ==
  IF n = 0 THEN {<<>>}
  ELSE LET shorter == SeqsUpTo(S, n - 1)
       IN shorter \cup {Append(s, x) : s \in {t \in shorter : Len(t) = n - 1}, x \in S}

\* The body of a message: its top-level content type, its headers and the
\* leaves mail.walk() yields after the root.
Bodies ==
  [multipart : {FALSE}, date : Dates, sender : Senders, parts : {<<>>}]
  \cup [multipart : {TRUE}, date : Dates, sender : Senders, parts : SeqsUpTo(Parts, MaxParts)]

Mailboxes == SeqsUpTo(Bodies, MaxMsgs) \ {<<>>}

\* What mail.walk() yields after the root when every Content-Disposition is
\* met: nested multipart containers, non-image leaves and image leaves, each
\* with no disposition, inline or attachment.
DispositionParts ==
  [kind : {"multipart", "text"}, name : {NoName}, payload : {NoPayload},
   disposition : Dispositions]
  \cup [kind : {"image"}, name : Names, payload : {<<1>>},
        disposition : Dispositions]

\* mailboxes of one multipart message over these parts
DispositionMailboxes ==
  {<<b>> : b \in [multipart : {TRUE}, date : Dates, sender : Senders,
                  parts : SeqsUpTo(DispositionParts, MaxParts)]}

\* X-GM-MSGID of the message behind the search handle h: durable, distinct per
\* message, and not the handle itself
MsgId(h) == 100 + h

\* Arguments of Server.__init__, as lpf.py reads them from the configuration
\* ("" stands for a value that is missing), and what the account holds.
Hosts == {"", "imap.gmail.com"}
Usernames == {"", "obama@gmail.com"}
Passwords == {"", "secret"}
Labels == {"", "Photos"}

\* What _save_part reads of a part to name its file: the filename of its
\* headers (a header value with its charset and text, NoFilename when
\* get_filename() is None) and the Content-Type header.
MaxNamed == 2     \* image parts named in one run
MaxNameLen == 3   \* characters of a declared filename

NoCharset == "None"
NoFilename == [charset |-> "absent", text |-> <<>>]
Charsets == {NoCharset, "utf-8"}
NameTexts == {<<>>, <<"a">>, <<"N", "o", "n", "e">>}
ImagePng == <<"i", "m", "a", "g", "e", "/", "p", "n", "g">>
ImagePngNamed ==
  ImagePng \o <<";", " ", "n", "a", "m", "e", "=", "\"", "c", ".", "p", "n", "g", "\"">>
NameParts ==
  [filename : {NoFilename} \cup [charset : Charsets, text : NameTexts],
   ctype : {ImagePng, ImagePngNamed}]

\* characters of filenames: letters, digits, dot, dash, underscore, space,
\* characters of punct, and other punctuation
Chars == {"a", "Z", "1", ".", "-", "_", " ", "\"", "!", "/", "\\",
          "(", ")", "%", "@"}

\* My "Photo"! (2020).jpg
PhotoName ==
  <<"M", "y", " ", "\"", "P", "h", "o", "t", "o", "\"", "!", " ",
    "(", "2", "0", "2", "0", ")", ".", "j", "p", "g">>

VARIABLES
  naming,       \* _save_part naming the parts of a run: the parts, the next
                \* one, self.seq and whether it is made, the names before and
                \* after sanitizing
  server,       \* Server.__init__: its arguments, how far it got, what it did
  mailbox,      \* the messages on the server, by search handle
  use_index,    \* Server._use_index
  use_folders,  \* Server._use_folders
  run,          \* number of the current run
  pc,           \* position of the run
  error,        \* the exception that ended the run, "" when none
  messages,     \* handles returned by _filter_messages
  cur,          \* position of the `for msg in messages` loop
  pi,           \* position of the `for part in mail.walk()` loop
  files,        \* the output directory: destination path -> content
  index,        \* Server._index as the running process sees it
  hashes,       \* Server._hashes as the running process sees it
  indexDisk,    \* entries of the index shelf known to be flushed
  hashesDisk,   \* entries of the hashes shelf known to be flushed
  open,         \* the two shelves are open (not yet closed by _cleanup)
  handled,      \* history: walk positions of the current message dealt with
  complete,     \* history: message ids marked after every walk position was
  fetched,      \* history: message ids whose body was fetched in this run
  marked,       \* history: message ids added to the index in this run
  last,         \* history: what the step just taken did, if it was a call of
                \* _save_part, with the files and stores it started from
  dups,         \* history: message ids with a part found duplicate in this run
  snap          \* history: files and stores at the end of the previous run,
                \* when that run completed normally; the failure of
                \* _save_part that ended it, when one did

vars == <<naming, server, mailbox, use_index, use_folders, run, pc, error, messages, cur, pi, files,
          index, hashes, indexDisk, hashesDisk, open, handled, complete, fetched,
          marked, last, dups, snap>>

config == <<naming, server, mailbox, use_index, use_folders>>

\* what a run of lostphotosfound works on
running == <<run, pc, error, messages, cur, pi, files, index, hashes, indexDisk,
             hashesDisk, open, handled, complete, fetched, marked, last, dups,
             snap>>

\* a call Server(host, username, password, label=...) about to start; allmail
\* tells whether a folder of the account carries the \\AllMail flag
NewServers ==
  [host : Hosts, username : Usernames, password : Passwords, label : Labels,
   allmail : BOOLEAN, at : {"new"}, attempted : {FALSE}, client : {FALSE},
   shelves : {FALSE}, login : {FALSE}, error : {""}]

\* _save_part about to name the parts given, self.seq not yet made
Naming(parts) ==
  [parts |-> parts, at |-> 1, hasseq |-> FALSE, seq |-> 0, resolved |-> <<>>,
   names |-> <<>>, error |-> ""]

\* a Server whose __init__ returned
Constructed ==
  [host |-> "imap.gmail.com", username |-> "obama@gmail.com",
   password |-> "secret", label |-> "", allmail |-> TRUE, at |-> "ready",
   attempted |-> TRUE, client |-> TRUE, shelves |-> TRUE, login |-> TRUE,
   error |-> ""]

NoFiles == [p \in {} |-> <<>>]
NoFailure == [op |-> "none", saved |-> <<>>, payload |-> <<>>, id |-> 0]
NoSnap == [valid |-> FALSE, files |-> NoFiles, index |-> {}, hashes |-> {},
           failed |-> NoFailure]
NoCall == [op |-> "none", part |-> RootPart, saved |-> <<>>,
           payload |-> <<>>, files |-> NoFiles,
           hashes |-> {}, index |-> {}]

\* ----------------------------------------------------------------- helpers

\* hashlib.sha1(payload).hexdigest(): one digest per byte string
Sha1(payload) == <<"sha1", payload>>

Prefixes(s) == {SubSeq(s, 1, n) : n \in 0..Len(s)}
StrictPrefixes(s) == {SubSeq(s, 1, n) : n \in 0..(Len(s) - 1)}

\* header_date + header_filename
Filename(mail, part) == <<mail.date, part.name>>

\* os.path.join(userdir, username[, sender], filename)
SavedPath(mail, part) ==
  <<IF use_folders THEN mail.sender ELSE "", Filename(mail, part)>>

\* mutant of IsFile: the existence test is lost, every path counts as free
IsFileNever(saved) == FALSE

\* os.path.isfile(saved)
IsFile(saved) == saved \in DOMAIN files

\* mutant of HashKnown: only the digests flushed to disk are looked at
HashKnownFlushed(payload_hash) == payload_hash \in hashesDisk

\* payload_hash in self._hashes.keys()
HashKnown(payload_hash) == payload_hash \in hashes

\* mutant of AlreadyProcessed: the index is asked for the search handle, not
\* for the X-GM-MSGID
AlreadyProcessedByHandle(msgid) == use_index /\ (msgid - 100) \in index

\* self._use_index and msgid in self._index.keys()
AlreadyProcessed(msgid) == use_index /\ msgid \in index

\* mutant of Eligible: a part with no Content-Disposition is passed over
EligibleWithDisposition(part) ==
  /\ part.kind # "multipart"
  /\ part.disposition # NoDisposition
  /\ part.kind = "image"

\* the walk loop's filter: a part is passed to _save_part
Eligible(part) ==
  /\ part.kind # "multipart"
  /\ (part.disposition = NoDisposition => TRUE)     \* `pass`
  /\ part.kind = "image"

WithFile(saved, content) ==
  [p \in DOMAIN files \cup {saved} |-> IF p = saved THEN content ELSE files[p]]

\* mail.walk(): the root, then its leaves in order
Walk(mail) == <<RootPart>> \o mail.parts

Mail == mailbox[messages[cur]]
Part == Walk(Mail)[pi]
CurId == MsgId(messages[cur])

Running == pc \in {"search", "fetchid", "fetchbody", "walk", "cleanup"}
Ended == pc \in {"done", "aborted", "crashed"}

\* ------------------------------------------------------------------- Init
\* the state a first run starts from, whatever the mailbox
Fresh ==
  /\ use_index \in BOOLEAN
  /\ use_folders = FALSE     \* the default of __init__, which lpf.py keeps
  /\ run = 1
  /\ pc = "search"
  /\ error = ""
  /\ messages = <<>>
  /\ cur = 0
  /\ pi = 0
  /\ files = NoFiles
  /\ index = {}
  /\ hashes = {}
  /\ indexDisk = {}
  /\ hashesDisk = {}
  /\ open = TRUE
  /\ handled = {}
  /\ complete = {}
  /\ fetched = {}
  /\ marked = {}
  /\ last = NoCall
  /\ dups = {}
  /\ snap = NoSnap

\* a first run over a mailbox, with an empty directory and empty shelves
Init ==
  mailbox \in Mailboxes /\ server = Constructed /\ naming = Naming(<<>>) /\ Fresh

\* the same over a mailbox whose parts carry every Content-Disposition
InitDisposition ==
  /\ mailbox \in DispositionMailboxes
  /\ server = Constructed
  /\ naming = Naming(<<>>)
  /\ Fresh

\* a call of Server(...) with any arguments, before any run
InitServer ==
  mailbox = <<>> /\ server \in NewServers /\ naming = Naming(<<>>) /\ Fresh

\* _save_part about to name up to MaxNamed image parts
InitNames ==
  /\ mailbox = <<>>
  /\ server = Constructed
  /\ naming \in {Naming(parts) : parts \in SeqsUpTo(NameParts, MaxNamed) \ {<<>>}}
  /\ Fresh

\* _save_part about to name one part whose filename is any string of up to
\* MaxNameLen characters, or the PhotoName
InitSanitize ==
  /\ mailbox = <<>>
  /\ server = Constructed
  /\ naming \in {Naming(<<[filename |-> [charset |-> c, text |-> t],
                           ctype |-> ImagePng]>>) :
                   c \in Charsets, t \in SeqsUpTo(Chars, MaxNameLen) \cup {PhotoName}}
  /\ Fresh


\* --------------------------------------------------------- Server.__init__

\* an exception leaves __init__: no Server object
Failed(what) == [server EXCEPT !.at = "failed", !.error = what]

\* `if not host: raise`
HostMissing ==
  /\ server.at = "new"
  /\ server.host = ""
  /\ server' = Failed("Missing IMAP host parameter in your config")
  /\ UNCHANGED <<naming, mailbox, use_index, use_folders, running>>

\* IMAPClient(host, use_uid=True, ssl=True) connects and returns the client
Connect ==
  /\ server.at = "new"
  /\ server.host # ""
  /\ server' = [server EXCEPT !.attempted = TRUE, !.client = TRUE,
                              !.at = "shelves"]
  /\ UNCHANGED <<naming, mailbox, use_index, use_folders, running>>

\* IMAPClient(...) raises: the connection was tried, no client is made
ConnectFails ==
  /\ server.at = "new"
  /\ server.host # ""
  /\ server' = [Failed("Could not successfully connect to the IMAP host")
                  EXCEPT !.attempted = TRUE]
  /\ UNCHANGED <<naming, mailbox, use_index, use_folders, running>>

\* the two shelve.open calls, on files named after the username
OpenShelves ==
  /\ server.at = "shelves"
  /\ server' = [server EXCEPT !.shelves = TRUE, !.at = "login"]
  /\ UNCHANGED <<naming, mailbox, use_index, use_folders, running>>

\* _login: `if not username or not password: raise`
CredentialsMissing ==
  /\ server.at = "login"
  /\ server.username = "" \/ server.password = ""
  /\ server' = Failed("Missing username or password parameters")
  /\ UNCHANGED <<naming, mailbox, use_index, use_folders, running>>

\* _login: self._server.login(username, password) is sent and accepted
Login ==
  /\ server.at = "login"
  /\ server.username # "" /\ server.password # ""
  /\ server' = [server EXCEPT !.login = TRUE, !.at = "folder"]
  /\ UNCHANGED <<naming, mailbox, use_index, use_folders, running>>

\* _login: the login is sent and refused
LoginFails ==
  /\ server.at = "login"
  /\ server.username # "" /\ server.password # ""
  /\ server' = [Failed("Cannot login, check username/password")
                  EXCEPT !.login = TRUE]
  /\ UNCHANGED <<naming, mailbox, use_index, use_folders, running>>

\* _login: the label, or the folder flagged \\AllMail, is selected
SelectFolder ==
  /\ server.at = "folder"
  /\ server.label # "" \/ server.allmail
  /\ server' = [server EXCEPT !.at = "ready"]
  /\ UNCHANGED <<naming, mailbox, use_index, use_folders, running>>

\* _login: select_folder raises IMAPClient.Error
SelectFolderFails ==
  /\ server.at = "folder"
  /\ server.label # "" \/ server.allmail
  /\ server' = Failed("Cannot select the folder")
  /\ UNCHANGED <<naming, mailbox, use_index, use_folders, running>>

\* _login: no label and no folder flagged \\AllMail: all_mail is not bound
NoAllMailFolder ==
  /\ server.at = "folder"
  /\ server.label = "" /\ ~server.allmail
  /\ server' = Failed("UnboundLocalError: all_mail")
  /\ UNCHANGED <<naming, mailbox, use_index, use_folders, running>>

NextServer ==
  \/ HostMissing
  \/ Connect
  \/ ConnectFails
  \/ OpenShelves
  \/ CredentialsMissing
  \/ Login
  \/ LoginFails
  \/ SelectFolder
  \/ SelectFolderFails
  \/ NoAllMailFolder

\* the constructor alone, over every combination of its arguments
SpecServer == InitServer /\ [][NextServer]_vars

\* ------------------------------------------- _save_part: the name of a part

\* A string is the sequence of its characters.
Unnamed == <<"_", "_", "u", "n", "n", "a", "m", "e", "d", "_", "_">>
NoneWord == <<"N", "o", "n", "e">>
NameParam == <<"n", "a", "m", "e", "=">>
AttachmentDash == <<"a", "t", "t", "a", "c", "h", "m", "e", "n", "t", "-">>
DotData == <<".", "d", "a", "t", "a">>
DigitChars == <<"0", "1", "2", "3", "4", "5", "6", "7", "8", "9">>

\* punct, character by character; "grave" stands for the grave accent, which
\* a string of this language can not hold
Punct == {"!", "\"", "#", "$", "&", "'", "*", "+", "/", ";", "<", ">", "?",
          "[", "\\", "]", "^", "grave", "{", "|", "}", "~"}

\* _charset_decoder: the text of a header value, whatever its charset
CharsetDecoder(header) == header.text

\* `sub in s`
Contains(s, sub) ==
  \E i \in 1..(Len(s) - Len(sub) + 1) : SubSeq(s, i, i + Len(sub) - 1) = sub

\* s.split(sub)[-1]: what follows the last sub in s, s itself when none
AfterLast(s, sub) ==
  LET found == {i \in 1..(Len(s) - Len(sub) + 1) :
                  SubSeq(s, i, i + Len(sub) - 1) = sub}
  IN IF found = {} THEN s
     ELSE LET i == CHOOSE x \in found : \A y \in found : y <= x
          IN SubSeq(s, i + Len(sub), Len(s))

\* s.replace(c, '')
Without(s, c) == SelectSeq(s, LAMBDA x : x # c)

\* a character that `not c` takes for false: there is none
Falsy(c) == c = ""

\* 'attachment-%06d.data' % (seq)
Synthesized(seq) ==
  AttachmentDash
  \o [i \in 1..6 |-> DigitChars[((seq \div (10 ^ (6 - i))) % 10) + 1]]
  \o DotData

\* mutant of Sanitized: a character of punct is replaced, not deleted
SanitizedByReplacing(name) ==
  [i \in 1..Len(name) |-> IF name[i] \in Punct THEN "_" ELSE name[i]]

\* header_filename.translate(badchars): the characters of punct are deleted
Sanitized(name) == SelectSeq(name, LAMBDA c : c \notin Punct)

\* One call of _save_part as far as the name goes: the counter is made at
\* the first call; an absent filename becomes "__unnamed__"; a decoded name
\* holding 'None' is replaced by what follows name= in the Content-Type,
\* quotes removed; else a name whose first character is false is replaced by
\* the synthesized name and the counter moves on (an empty name has no first
\* character: IndexError); the name is then sanitized.
NamePart ==
  /\ naming.error = ""
  /\ naming.at <= Len(naming.parts)
  /\ LET part == naming.parts[naming.at]
         seq == IF naming.hasseq THEN naming.seq ELSE 0
         name == IF part.filename = NoFilename
                   THEN [charset |-> NoCharset, text |-> Unnamed]
                   ELSE part.filename
         header_filename == CharsetDecoder(name)
         fromType == Contains(header_filename, NoneWord)
     IN naming' =
          IF ~fromType /\ header_filename = <<>>
            THEN [naming EXCEPT !.hasseq = TRUE, !.seq = seq,
                                !.error = "IndexError"]
            ELSE LET synth == ~fromType /\ Falsy(header_filename[1])
                     resolved ==
                       IF fromType
                         THEN Without(AfterLast(part.ctype, NameParam), "\"")
                         ELSE IF synth THEN Synthesized(seq)
                              ELSE header_filename
                 IN [naming EXCEPT !.hasseq = TRUE,
                                   !.seq = IF synth THEN seq + 1 ELSE seq,
                                   !.at = @ + 1,
                                   !.resolved = Append(@, resolved),
                                   !.names = Append(@, Sanitized(resolved))]
  /\ UNCHANGED <<server, mailbox, use_index, use_folders, running>>

\* the names of the image parts of a run, one call of _save_part after another
SpecNames == InitNames /\ [][NamePart]_vars

\* the name of one part whose filename is any short string
SpecSanitize == InitSanitize /\ [][NamePart]_vars

\* ------------------------------------------------------------ control flow

\* mutant of Raise: an exception of the extractor is caught and the walk goes
\* on with the next part
RaiseAndContinue(what) ==
  /\ pc' = IF pc = "walk" THEN "walk" ELSE "aborted"
  /\ error' = IF pc = "walk" THEN error ELSE what
  /\ pi' = IF pc = "walk" THEN pi + 1 ELSE 0
  /\ handled' = IF pc = "walk" THEN handled ELSE {}
  /\ UNCHANGED cur

\* an exception leaves lostphotosfound: nothing below it in the method runs
Raise(what) ==
  /\ pc' = "aborted"
  /\ error' = what
  /\ pi' = 0
  /\ handled' = {}
  /\ UNCHANGED cur

\* the process is gone: nothing of its memory is left
Killed ==
  /\ pc' = "crashed"
  /\ error' = ""
  /\ messages' = <<>>
  /\ cur' = 0
  /\ pi' = 0
  /\ handled' = {}
  /\ fetched' = {}
  /\ marked' = {}
  /\ dups' = {}

\* the walk loop goes on with the next part
NextPart ==
  /\ pc' = "walk"
  /\ pi' = pi + 1
  /\ handled' = handled \cup {pi}
  /\ UNCHANGED <<cur, error>>

\* the `for msg in messages` loop goes on; after the last message, _cleanup
NextMessage ==
  /\ cur' = cur + 1
  /\ pi' = 0
  /\ handled' = {}
  /\ pc' = IF cur + 1 > Len(messages) THEN "cleanup" ELSE "fetchid"
  /\ UNCHANGED error

\* ------------------------------------------------------- _filter_messages

\* gmail_search answers with the handles of the messages of the mailbox
FilterMessages ==
  /\ pc = "search"
  /\ messages' = [h \in 1..Len(mailbox) |-> h]
  /\ cur' = 1
  /\ pc' = IF Len(mailbox) = 0 THEN "cleanup" ELSE "fetchid"
  /\ last' = NoCall
  /\ UNCHANGED <<config, run, error, pi, files, index, hashes, indexDisk, hashesDisk,
                 open, handled, complete, fetched, marked, dups, snap>>

\* gmail_search raises: 'Search criteria returned a failure'
SearchFails ==
  /\ pc = "search"
  /\ pc' = "aborted"
  /\ error' = "Search criteria returned a failure"
  /\ last' = NoCall
  /\ UNCHANGED <<config, run, messages, cur, pi, files, index, hashes, indexDisk,
                 hashesDisk, open, handled, complete, fetched, marked, dups, snap>>

\* ------------------------------------------------ lostphotosfound, per msg

\* fetch([msg], ['X-GM-MSGID']) raises
FetchIdFails ==
  /\ pc = "fetchid"
  /\ Raise("Could not fetch the message ID")
  /\ last' = NoCall
  /\ UNCHANGED <<config, run, messages, files, index, hashes, indexDisk,
                 hashesDisk, open, complete, fetched, marked, dups, snap>>

\* the id is in the index: 'Skipping X-GM-MSDID', continue
SkipProcessed ==
  /\ pc = "fetchid"
  /\ AlreadyProcessed(CurId)
  /\ NextMessage
  /\ last' = NoCall
  /\ UNCHANGED <<config, run, messages, files, index, hashes, indexDisk,
                 hashesDisk, open, complete, fetched, marked, dups, snap>>

\* the id is not in the index (or the index is not used): go on to the body
NotProcessed ==
  /\ pc = "fetchid"
  /\ ~AlreadyProcessed(CurId)
  /\ pc' = "fetchbody"
  /\ last' = NoCall
  /\ UNCHANGED <<config, run, error, messages, cur, pi, files, index, hashes, indexDisk,
                 hashesDisk, open, handled, complete, fetched, marked, dups, snap>>

\* mutant of FetchBodyFails: the failure is noted and the loop goes on with
\* the next message
FetchBodyFailsSkips ==
  /\ pc = "fetchbody"
  /\ error' = "fetch RFC822"
  /\ cur' = cur + 1
  /\ pi' = 0
  /\ handled' = {}
  /\ pc' = IF cur + 1 > Len(messages) THEN "cleanup" ELSE "fetchid"
  /\ last' = NoCall
  /\ UNCHANGED <<config, run, messages, files, index, hashes, indexDisk,
                 hashesDisk, open, complete, fetched, marked, dups, snap>>

\* fetch([msg], ['RFC822']) raises
FetchBodyFails ==
  /\ pc = "fetchbody"
  /\ Raise("fetch RFC822")
  /\ last' = NoCall
  /\ UNCHANGED <<config, run, messages, files, index, hashes, indexDisk,
                 hashesDisk, open, complete, fetched, marked, dups, snap>>

\* the body arrives and is parsed; a message that is not multipart is left
\* by `continue`, which also steps over the index insertion below the walk
FetchBody ==
  /\ pc = "fetchbody"
  /\ fetched' = fetched \cup {CurId}
  /\ IF Mail.multipart
       THEN /\ pc' = "walk"
            /\ pi' = 1
            /\ handled' = {}
            /\ UNCHANGED <<cur, error>>
       ELSE NextMessage
  /\ last' = NoCall
  /\ UNCHANGED <<config, run, messages, files, index, hashes, indexDisk,
                 hashesDisk, open, complete, marked, dups, snap>>

InWalk == pc = "walk" /\ pi <= Len(Walk(Mail))

\* a multipart container or a part that is no image: continue
WalkSkip ==
  /\ InWalk
  /\ ~Eligible(Part)
  /\ NextPart
  /\ last' = NoCall
  /\ UNCHANGED <<config, run, messages, files, index, hashes, indexDisk,
                 hashesDisk, open, complete, fetched, marked, dups, snap>>

\* -------------------------------------------------------------- _save_part

Saved == SavedPath(Mail, Part)
Called(what) == [op |-> what, part |-> Part, saved |-> Saved,
                 payload |-> Part.payload,
                 files |-> files, hashes |-> hashes, index |-> index]

\* mutant of SaveExisting: the path is opened for writing though a file is
\* there
SaveExistingOverwrites ==
  /\ InWalk /\ Eligible(Part)
  /\ IsFile(Saved)
  /\ files' = WithFile(Saved, Part.payload)
  /\ NextPart
  /\ last' = Called("existing")
  /\ UNCHANGED <<config, run, messages, index, hashes, indexDisk,
                 hashesDisk, open, complete, fetched, marked, dups, snap>>

\* a file is at the destination path: nothing is opened, read or written
SaveExisting ==
  /\ InWalk /\ Eligible(Part)
  /\ IsFile(Saved)
  /\ NextPart
  /\ last' = Called("existing")
  /\ UNCHANGED <<config, run, messages, files, index, hashes, indexDisk,
                 hashesDisk, open, complete, fetched, marked, dups, snap>>

\* open(saved, 'wb') has made the file; get_payload raises; the file stays
SaveDecodeFails ==
  /\ InWalk /\ Eligible(Part)
  /\ ~IsFile(Saved)
  /\ files' = WithFile(Saved, <<>>)
  /\ Raise("Failed when downloading attachment")
  /\ last' = Called("decodefail")
  /\ UNCHANGED <<config, run, messages, index, hashes, indexDisk, hashesDisk,
                 open, complete, fetched, marked, dups, snap>>

\* the digest is in the hashes: the file just made is removed again
SaveDuplicate ==
  /\ InWalk /\ Eligible(Part)
  /\ ~IsFile(Saved)
  /\ HashKnown(Sha1(Part.payload))
  /\ files' = [p \in DOMAIN files \ {Saved} |-> files[p]]
  /\ NextPart
  /\ last' = Called("duplicate")
  /\ dups' = dups \cup {CurId}
  /\ UNCHANGED <<config, run, messages, index, hashes, indexDisk, hashesDisk,
                 open, complete, fetched, marked, snap>>

\* a new digest: the payload is written, then the digest is recorded
SaveNew ==
  /\ InWalk /\ Eligible(Part)
  /\ ~IsFile(Saved)
  /\ ~HashKnown(Sha1(Part.payload))
  /\ files' = WithFile(Saved, Part.payload)
  /\ hashes' = hashes \cup {Sha1(Part.payload)}
  /\ NextPart
  /\ last' = Called("new")
  /\ UNCHANGED <<config, run, messages, index, indexDisk, hashesDisk, open,
                 complete, fetched, marked, dups, snap>>

\* the digest is recorded before the write that then raises
SaveWriteFailsRecorded ==
  /\ InWalk /\ Eligible(Part)
  /\ ~IsFile(Saved)
  /\ ~HashKnown(Sha1(Part.payload))
  /\ hashes' = hashes \cup {Sha1(Part.payload)}
  /\ \E written \in StrictPrefixes(Part.payload) :
       files' = WithFile(Saved, written)
  /\ Raise("Failed writing attachment to file")
  /\ last' = Called("writefail")
  /\ UNCHANGED <<config, run, messages, index, indexDisk, hashesDisk,
                 open, complete, fetched, marked, dups, snap>>

\* imagefile.write raises: what was written before stays, no digest recorded
SaveWriteFails ==
  /\ InWalk /\ Eligible(Part)
  /\ ~IsFile(Saved)
  /\ ~HashKnown(Sha1(Part.payload))
  /\ \E written \in StrictPrefixes(Part.payload) :
       files' = WithFile(Saved, written)
  /\ Raise("Failed writing attachment to file")
  /\ last' = Called("writefail")
  /\ UNCHANGED <<config, run, messages, index, hashes, indexDisk, hashesDisk,
                 open, complete, fetched, marked, dups, snap>>

\* the process is killed inside the `with open(...)` block: the file is there,
\* empty before the write, with any part of the payload from the write on
SaveCrash ==
  /\ InWalk /\ Eligible(Part)
  /\ ~IsFile(Saved)
  /\ \E written \in (IF HashKnown(Sha1(Part.payload))
                       THEN {<<>>} ELSE Prefixes(Part.payload)) :
       files' = WithFile(Saved, written)
  /\ Killed
  /\ last' = Called("crash")
  /\ UNCHANGED <<config, run, index, hashes, indexDisk, hashesDisk, open,
                 complete, snap>>

\* ------------------------------------------------ end of a message, of a run

\* 'all parts of mail processed, add it to the index'
MarkProcessed ==
  /\ pc = "walk"
  /\ pi = Len(Walk(Mail)) + 1
  /\ index' = index \cup {CurId}
  /\ marked' = marked \cup {CurId}
  /\ complete' = complete \cup
       (IF handled = 1..Len(Walk(Mail)) THEN {CurId} ELSE {})
  /\ NextMessage
  /\ last' = NoCall
  /\ UNCHANGED <<config, run, messages, files, hashes, indexDisk, hashesDisk,
                 open, fetched, dups, snap>>

\* mutant of Cleanup: the hashes shelf is neither synced nor closed
CleanupWithoutHashes ==
  /\ pc = "cleanup"
  /\ indexDisk' = index
  /\ open' = FALSE
  /\ pc' = "done"
  /\ last' = NoCall
  /\ UNCHANGED <<config, run, error, messages, cur, pi, files, index, hashes,
                 hashesDisk, handled, complete, fetched, marked, dups, snap>>

\* _cleanup: sync and close both shelves
Cleanup ==
  /\ pc = "cleanup"
  /\ indexDisk' = index
  /\ hashesDisk' = hashes
  /\ open' = FALSE
  /\ pc' = "done"
  /\ last' = NoCall
  /\ UNCHANGED <<config, run, error, messages, cur, pi, files, index, hashes, handled,
                 complete, fetched, marked, dups, snap>>

\* the process is killed between two steps
Crash ==
  /\ Running
  /\ Killed
  /\ last' = NoCall
  /\ UNCHANGED <<config, run, files, index, hashes, indexDisk, hashesDisk,
                 open, complete, snap>>

\* What a new process finds in a shelf: all of it after _cleanup; after an
\* exception or a kill, the flushed entries and any of the entries set since.
Survivors(disk, mem) == {disk \cup S : S \in SUBSET (mem \ disk)}

\* the decode or write failure of _save_part that ended the run, if any:
\* which call, for which path, payload and message
Failure ==
  IF pc = "aborted" /\ last.op \in {"decodefail", "writefail"}
    THEN [op |-> last.op, saved |-> last.saved, payload |-> last.payload,
          id |-> CurId]
    ELSE NoFailure

\* Server.__init__ in a new process: the shelves are opened again, the counters
\* of the run start over, the files are where the earlier runs left them
StartRun ==
  /\ Ended
  /\ run < MaxRuns
  /\ run' = run + 1
  /\ \E i \in Survivors(indexDisk, index) : index' = i /\ indexDisk' = i
  /\ \E h \in Survivors(hashesDisk, hashes) : hashes' = h /\ hashesDisk' = h
  /\ open' = TRUE
  /\ pc' = "search"
  /\ error' = ""
  /\ messages' = <<>>
  /\ cur' = 0
  /\ pi' = 0
  /\ handled' = {}
  /\ fetched' = {}
  /\ marked' = {}
  /\ dups' = {}
  /\ last' = NoCall
  /\ snap' = IF pc = "done"
               THEN [valid |-> TRUE, files |-> files, index |-> index,
                     hashes |-> hashes, failed |-> NoFailure]
               ELSE [NoSnap EXCEPT !.failed = Failure]
  /\ UNCHANGED <<config, files, complete>>

Next ==
  \/ FilterMessages
  \/ SearchFails
  \/ FetchIdFails
  \/ SkipProcessed
  \/ NotProcessed
  \/ FetchBodyFails
  \/ FetchBody
  \/ WalkSkip
  \/ SaveExisting
  \/ SaveDecodeFails
  \/ SaveDuplicate
  \/ SaveNew
  \/ SaveWriteFails
  \/ SaveCrash
  \/ MarkProcessed
  \/ Cleanup
  \/ Crash
  \/ StartRun

Spec == Init /\ [][Next]_vars

\* the same program over the mailboxes of InitDisposition
SpecDisposition == InitDisposition /\ [][Next]_vars


\* ------------------------------------------------------------------ claims

Handles == 1..Len(mailbox)

\* the paths of the output directory that hold exactly these bytes
FilesWith(content) == {p \in DOMAIN files : files[p] = content}

NoTwoSameContent ==
  \A p, q \in DOMAIN files : files[p] = files[q] => p = q

\* the payloads of the image parts of the message behind handle h
ImagePayloads(h) ==
  {mailbox[h].parts[i].payload :
     i \in {j \in 1..Len(mailbox[h].parts) : mailbox[h].parts[j].kind = "image"}}

\* the run started from an empty output directory and empty stores
FromEmpty == run = 1

\* the run before this one ended by an exception or a kill
AfterInterruption == run > 1 /\ ~snap.valid

\* C1: idempotent re-run.  When a run completes normally and the run before
\* it, over the same mailbox, completed normally too, the files (paths and
\* contents), the index and the hashes are exactly what the earlier run left.
C1_IdempotentRerun ==
  (pc = "done" /\ snap.valid) =>
    /\ files = snap.files
    /\ index = snap.index
    /\ hashes = snap.hashes

\* a second complete run that fetched and walked messages again (the index is
\* not used), over files and hashes the first run left
C1_Witness ==
  /\ pc = "done" /\ snap.valid
  /\ ~use_index
  /\ marked # {}
  /\ DOMAIN files # {}
  /\ hashes # {}

\* C2: content dedup.  After a normal run from an empty directory and empty
\* stores, no two files hold the same bytes, the digest of every file is in
\* the hashes, and a payload carried by image parts of two distinct messages
\* is in exactly one file and has its digest in the hashes.
C2_ContentDedup ==
  (FromEmpty /\ pc = "done") =>
    /\ NoTwoSameContent
    /\ \A p \in DOMAIN files : Sha1(files[p]) \in hashes
    /\ \A h1, h2 \in Handles : \A a \in ImagePayloads(h1) \cap ImagePayloads(h2) :
         h1 # h2 => Cardinality(FilesWith(a)) = 1 /\ Sha1(a) \in hashes

\* C3: non-multipart skip.  When a run completes normally, every message that
\* is not multipart and whose body the run fetched is in the index; and a run
\* from an empty directory over messages none of which is multipart has made
\* no file.
C3_NonMultipartMarked ==
  (pc = "done") =>
    /\ \A h \in Handles :
         (~mailbox[h].multipart /\ MsgId(h) \in fetched) => MsgId(h) \in index
    /\ (FromEmpty /\ \A h \in Handles : ~mailbox[h].multipart) => files = NoFiles

\* C4: index insertion happens last.  An id is in the index (of the process
\* or on disk) only if the message was marked after every position of its
\* walk had been dealt with; and when a run ends by an exception raised in
\* the extractor, the id of the message it was walking was not added to the
\* index in that run.
C4_IndexInsertionLast ==
  /\ index \subseteq complete
  /\ indexDisk \subseteq complete
  /\ (pc = "aborted" /\ error \in {"Failed when downloading attachment",
                                   "Failed writing attachment to file"})
       => CurId \notin marked

\* a first message was marked after its walk, then the write of a part of the
\* second message failed
C4_Witness ==
  /\ pc = "aborted"
  /\ error = "Failed writing attachment to file"
  /\ cur = 2
  /\ marked = {MsgId(1)}
  /\ Len(mailbox[1].parts) = 2
  /\ CurId \notin index

\* C5: index gate before body fetch.  With the index in use, a body fetched
\* in this run belongs to a message whose id was not in the index when it was
\* checked (an id that is in the index and was fetched was added by this run,
\* after its walk); the message being fetched or walked is not in the index;
\* and parts are only walked of a message whose body this run fetched.
C5_IndexGate ==
  use_index =>
    /\ \A id \in fetched : id \in index => id \in marked
    /\ pc \in {"fetchbody", "walk"} => CurId \notin index
    /\ pc = "walk" => CurId \in fetched

\* a complete run over a mailbox whose multipart messages were all in the
\* index: each was skipped after the id round-trip, nothing fetched or marked
C5_Witness ==
  /\ use_index
  /\ pc = "done"
  /\ index # {}
  /\ \A h \in Handles : mailbox[h].multipart /\ MsgId(h) \in index
  /\ fetched = {}
  /\ marked = {}

\* C6: flush on every exit path.  When a run has ended, by normal completion
\* or by an exception, both shelves are synced and closed.
C6_FlushOnEveryExit ==
  pc \in {"done", "aborted"} =>
    /\ ~open
    /\ indexDisk = index
    /\ hashesDisk = hashes

\* C7: crash safety of dedup.  When a run completes normally after a run that
\* was interrupted, no two files hold the same bytes and every id in the
\* index is of a message marked after its whole walk.
C7_CrashSafeDedup ==
  (pc = "done" /\ AfterInterruption) =>
    /\ NoTwoSameContent
    /\ index \subseteq complete

\* C8: exactly-once extraction.  After a normal run from an empty directory
\* and empty stores, every payload of an image part of a multipart message
\* the run processed is the content of exactly one file.
C8_ExactlyOnce ==
  (FromEmpty /\ pc = "done") =>
    \A h \in Handles : \A a \in ImagePayloads(h) :
      MsgId(h) \in marked => Cardinality(FilesWith(a)) = 1

\* a call of _save_part that came back (no kill), for a path that held a file
CalledOnExistingPath ==
  /\ last.op \notin {"none", "crash"}
  /\ last.saved \in DOMAIN last.files

\* C9: path-level dedup.  After a call of _save_part for a part whose
\* destination path held a file, no exception is raised (the walk goes on),
\* and the files (paths and contents), the hashes and the index are as they
\* were before the call.
C9_PathLevelDedup ==
  CalledOnExistingPath =>
    /\ pc = "walk" /\ error = ""
    /\ files = last.files
    /\ hashes = last.hashes
    /\ index = last.index

\* the extractor was called on a path that a file of another content holds
C9_Witness ==
  /\ last.op = "existing"
  /\ files[last.saved] # last.payload

\* a call of _save_part that decoded the payload, for a path that held no
\* file and a payload whose digest was in the hashes
CalledOnKnownHash ==
  /\ last.op \in {"new", "duplicate", "writefail"}
  /\ last.saved \notin DOMAIN last.files
  /\ Sha1(last.payload) \in last.hashes

\* C10 as stated: the duplicate branch leaves no file at the destination path
\* and the hashes unchanged, raises nothing, and the message is recorded in
\* the index by the end of the run.
C10_DuplicateThenRecorded ==
  /\ CalledOnKnownHash =>
       /\ last.saved \notin DOMAIN files
       /\ hashes = last.hashes
       /\ pc = "walk" /\ error = ""
  /\ pc \in {"done", "aborted"} => dups \subseteq marked

\* C10 as amended: the same, the message being recorded in the index by the
\* end of a run that no later exception ends.
C10_DuplicateNonFatal ==
  /\ CalledOnKnownHash =>
       /\ last.saved \notin DOMAIN files
       /\ files = last.files
       /\ hashes = last.hashes
       /\ pc = "walk" /\ error = ""
       /\ pi - 1 \in handled
  /\ pc = "done" => dups \subseteq marked

\* a complete run from empty stores in which the first part of the second
\* message was found duplicate of a payload of the first message, an image
\* part was walked after it, and the message was recorded
C10_Witness ==
  /\ FromEmpty /\ pc = "done"
  /\ Len(mailbox) = 2
  /\ MsgId(2) \in dups \cap marked
  /\ Len(mailbox[2].parts) = 2
  /\ mailbox[2].parts[1].payload \in ImagePayloads(1)
  /\ mailbox[2].parts[2].kind = "image"
  /\ SavedPath(mailbox[2], mailbox[2].parts[1]) \notin DOMAIN files

\* C11: write-then-record.  Every digest in the hashes is the digest of the
\* content of a file of the directory; a call of _save_part whose write
\* raised leaves the hashes as they were; and a call that changed the hashes
\* added the digest of its payload, the payload being the content of the file
\* at its destination path.
C11_WriteThenRecord ==
  /\ \A h \in hashes : \E p \in DOMAIN files : Sha1(files[p]) = h
  /\ last.op = "writefail" => hashes = last.hashes
  /\ (last.op # "none" /\ hashes # last.hashes) =>
       /\ hashes = last.hashes \cup {Sha1(last.payload)}
       /\ last.saved \in DOMAIN files
       /\ files[last.saved] = last.payload

\* a write raised in a run whose hashes held the digest of a file
C11_Witness ==
  /\ last.op = "writefail"
  /\ hashes # {}
  /\ Sha1(last.payload) \notin hashes

\* C12: disposition never gates eligibility.  _save_part is called only on
\* image parts, never on a multipart container, and the part the walk has
\* just left was passed to _save_part exactly when it is an image part,
\* whatever its Content-Disposition.
C12_DispositionNeverGates ==
  /\ last.op # "none" => last.part.kind = "image"
  /\ (pc = "walk" /\ pi > 1) =>
       /\ last.op # "none" <=> Walk(Mail)[pi - 1].kind = "image"
       /\ last.op # "none" => last.part = Walk(Mail)[pi - 1]

\* the walk passed over a non-image part declared as attachment and over a
\* nested container, and has just saved an image part with no disposition
C12_Witness ==
  /\ pc = "walk" /\ pi = 4
  /\ Walk(Mail)[2].kind \in {"text", "multipart"}
  /\ Walk(Mail)[2].disposition = "attachment"
  /\ Walk(Mail)[3].kind = "image"
  /\ Walk(Mail)[3].disposition = NoDisposition
  /\ last.op = "new"
  /\ handled = {1, 2, 3}

\* C13: configuration errors precede any connection.  When the host, the
\* username or the password is missing, __init__ never returns a Server, no
\* connection to the mail server is attempted, no IMAP client is created and
\* no login is sent.
C13_ConfigErrorsFirst ==
  (server.host = "" \/ server.username = "" \/ server.password = "") =>
    /\ server.at # "ready"
    /\ ~server.attempted
    /\ ~server.client
    /\ ~server.login

\* the exceptions of the two fetches of a message
FetchErrors == {"Could not fetch the message ID", "fetch RFC822"}

\* C14: a fetch failure aborts the run.  When the fetch of the id or of the
\* body of a message has failed, the run has ended with that error, the
\* failing message was neither fetched nor added to the index in this run,
\* and no message after it was fetched or added.
C14_FetchFailureAborts ==
  error \in FetchErrors =>
    /\ pc = "aborted"
    /\ CurId \notin fetched \cup marked
    /\ \A later \in (cur + 1)..Len(messages) :
         MsgId(messages[later]) \notin fetched \cup marked

\* the body fetch of the first of two messages failed
C14_Witness ==
  /\ error = "fetch RFC822"
  /\ pc = "aborted"
  /\ cur = 1
  /\ Len(messages) = 2

Alphanumerics ==
  {"a", "b", "c", "d", "e", "f", "g", "h", "i", "j", "k", "l", "m", "n", "o",
   "p", "q", "r", "s", "t", "u", "v", "w", "x", "y", "z",
   "A", "B", "C", "D", "E", "F", "G", "H", "I", "J", "K", "L", "M", "N", "O",
   "P", "Q", "R", "S", "T", "U", "V", "W", "X", "Y", "Z",
   "0", "1", "2", "3", "4", "5", "6", "7", "8", "9"}

\* a is b with some of its characters deleted
RECURSIVE KeptInOrder(_, _)
KeptInOrder(a, b) ==
  IF a = <<>> THEN TRUE
  ELSE IF b = <<>> THEN FALSE
  ELSE IF Head(a) = Head(b) THEN KeptInOrder(Tail(a), Tail(b))
  ELSE KeptInOrder(a, Tail(b))

Occurs(c, s) == \E k \in 1..Len(s) : s[k] = c

\* C15 as stated: a sanitized name holds only alphanumerics, dots, dashes,
\* underscores and spaces, kept in their original order, and the name
\* My "Photo"! (2020).jpg loses its double quotes, its exclamation mark and
\* its two parentheses.
C15_SanitizedAlphabet ==
  \A i \in 1..Len(naming.names) :
    /\ \A k \in 1..Len(naming.names[i]) :
         naming.names[i][k] \in Alphanumerics \cup {".", "-", "_", " "}
    /\ KeptInOrder(naming.names[i], naming.resolved[i])
    /\ naming.resolved[i] = PhotoName =>
         \A c \in {"\"", "!", "(", ")"} : ~Occurs(c, naming.names[i])

\* C15 as amended: a sanitized name holds no character of punct, is the name
\* with characters deleted, keeps every character that is not of punct, and
\* the name My "Photo"! (2020).jpg becomes My Photo (2020).jpg.
C15_SanitizedPunct ==
  \A i \in 1..Len(naming.names) :
    /\ \A k \in 1..Len(naming.names[i]) : naming.names[i][k] \notin Punct
    /\ KeptInOrder(naming.names[i], naming.resolved[i])
    /\ Len(naming.names[i]) =
         Cardinality({k \in 1..Len(naming.resolved[i]) :
                        naming.resolved[i][k] \notin Punct})
    /\ naming.resolved[i] = PhotoName =>
         naming.names[i] = <<"M", "y", " ", "P", "h", "o", "t", "o", " ", "(",
                             "2", "0", "2", "0", ")", ".", "j", "p", "g">>

\* the name My "Photo"! (2020).jpg was sanitized: the quotes and the
\* exclamation mark are gone, the parentheses are there
C15_Witness ==
  /\ Len(naming.names) = 1
  /\ naming.resolved[1] = PhotoName
  /\ ~Occurs("!", naming.names[1])
  /\ Occurs("(", naming.names[1])

\* the part named at position i declared no filename
Undeclared(i) == naming.parts[i].filename = NoFilename

\* the Content-Type of the part named at position i has a name parameter
TypeNamed(i) == Contains(naming.parts[i].ctype, NameParam)

\* C16: the filename fallback chain.  A part that declares no filename is
\* named by the name parameter of its Content-Type; when there is none, by
\* attachment-NNNNNN.data with NNNNNN the number of names synthesized before
\* it in the run; and two parts of a run with neither a filename nor a name
\* parameter never get the same name.
C16_FallbackChain ==
  /\ \A i \in 1..Len(naming.names) :
       Undeclared(i) =>
         IF TypeNamed(i)
           THEN naming.resolved[i] =
                  Without(AfterLast(naming.parts[i].ctype, NameParam), "\"")
           ELSE naming.resolved[i] =
                  Synthesized(Cardinality({j \in 1..(i - 1) :
                                             Undeclared(j) /\ ~TypeNamed(j)}))
  /\ \A i, j \in 1..Len(naming.names) :
       (i < j /\ Undeclared(i) /\ ~TypeNamed(i)
              /\ Undeclared(j) /\ ~TypeNamed(j)) =>
         naming.names[i] # naming.names[j]

\* C17: saved files are never altered or removed.  Every step of every run
\* leaves each file of the directory at its path with its content; a call of
\* _save_part changes at most its own destination path, and only when no
\* file was there before the call.
C17_SavedFilesKept ==
  [][/\ \A p \in DOMAIN files : p \in DOMAIN files' /\ files'[p] = files[p]
     /\ \A p \in DOMAIN files' \ DOMAIN files :
          /\ last'.op # "none"
          /\ p = last'.saved]_vars

\* a call found its payload duplicate and removed the file it had made; the
\* file of an earlier call that holds the same bytes at another path is there
C17_Witness ==
  /\ last.op = "duplicate"
  /\ last.saved \notin DOMAIN files
  /\ \E p \in DOMAIN files : files[p] = last.payload
  /\ files = last.files

\* C18: recovery after a failed extraction.  When a run completes normally
\* after a run that a decode or write failure of an image part ended, the
\* message of that part is in the index and the part's destination path
\* holds a file with its complete payload, or holds no file while a file at
\* another path has that payload.
C18_RecoveryAfterFailure ==
  (pc = "done" /\ snap.failed.op # "none") =>
    /\ snap.failed.id \in index
    /\ \/ /\ snap.failed.saved \in DOMAIN files
          /\ files[snap.failed.saved] = snap.failed.payload
       \/ /\ snap.failed.saved \notin DOMAIN files
          /\ \E p \in DOMAIN files : files[p] = snap.failed.payload

====
